---- MODULE Spec2Model ----
(***************************************************************************)
(* Model of dashboard/update_jobs/positions_job.py: one execution of the   *)
(* script is a process that sets the module up (environment, output        *)
(* directory), prints the diagnostics, fetches the account and the         *)
(* positions from the trading API, writes the snapshot file and reports.   *)
(* The file system (the output directory and its files), the wall clock    *)
(* and the broker's answers are the environment.                           *)
(***************************************************************************)
EXTENDS Integers, Sequences, FiniteSets, TLC

VARIABLES
    clock,        \* UTC wall clock, in ticks (TicksPerSec ticks per second)
    dir,          \* what is at DATA_DIR: kind, permissions, a dangling *.json link
    files,        \* the files of DATA_DIR: file name -> sequence of written blocks
    pc,           \* per process: position in the script
    env,          \* per process: ALPACA_API_KEY / ALPACA_SECRET_KEY as read at import
    agent,        \* per process: agent_name given to run_job
    account,      \* per process: the account object get_account returned
    account_data, \* per process: the account part of the record
    apiPositions, \* per process: the list get_all_positions returned
    data,         \* per process: the record fetch_alpaca_data returned
    fname,        \* per process: the file name save_data computed
    offset,       \* per process: blocks written so far through its open file
    exc,          \* per process: the exception raised inside run_job's try block
    result,       \* per process: what run_job returned
    exitStatus,   \* per process: exit status of the script
    log,          \* per process: the client creation, remote calls and opens made
    dirAtStart,   \* per process: dir as it was when the process started
    filesAtStart, \* per process: files as they were when the process started
    overlap,      \* two processes had the same file open at the same time
    lastWriter    \* the process that last cut or wrote a file (0: none yet)

vars == <<clock, dir, files, pc, env, agent, account, account_data, apiPositions,
          data, fname, offset, exc, result, exitStatus, log, dirAtStart,
          filesAtStart, overlap, lastWriter>>

\* What a process holds in memory
locals == <<env, agent, account, account_data, apiPositions, data, fname, offset,
            exc, result, log, dirAtStart, filesAtStart>>

----------------------------------------------------------------------------
\* Bounds of the model
MaxClock == 2
TicksPerSec == 2

Proc == {1, 2}
Agents == {"default", "alpha"}

\* os.getenv gives None for an unset variable, else its string value
Unset == "<unset>"
KeyValues == {Unset, "", "PK-TEST"}
Falsy(v) == v = Unset \/ v = ""

\* What the broker can answer.  Money arrives as decimal strings.
RawCash == {"1000.0", "250.5"}
Symbols == {"AAPL", "TSLA"}
RawQty == [AAPL |-> "10", TSLA |-> "2.5"]
ApiPosition(s) == [symbol |-> s, qty |-> RawQty[s]]
ApiPositionLists ==
    {<<>>, <<ApiPosition("AAPL")>>, <<ApiPosition("TSLA"), ApiPosition("AAPL")>>}
ApiAccounts == {[id |-> [uuid |-> "acc-1"], cash |-> c] : c \in RawCash}
ApiErrors == {"connection refused", "401 unauthorized"}
IOErrors == {"[Errno 28] No space left on device"}

NoValue == [none |-> TRUE]
NoName == [agent |-> "", stamp |-> -1]
NoExc == ""

----------------------------------------------------------------------------
\* float(): the decimal strings the broker sends, as tenths
float(s) ==
    CASE s = "1000.0" -> 10000
      [] s = "250.5"  -> 2505
      [] s = "10"     -> 100
      [] s = "2.5"    -> 25

\* get_malaysia_time(): utcnow() + timedelta(hours=8), in ticks
get_malaysia_time == clock + 8 * 3600 * TicksPerSec

\* strftime('%Y%m%d_%H%M%S'): the instant cut to whole seconds
strftime(t) == t \div TicksPerSec

\* isoformat(): the instant with its sub-second part
isoformat(t) == <<t \div TicksPerSec, t % TicksPerSec>>

\* JSONEncoder.default: a UUID becomes its string, anything else is an error
JSONEncoderDefault(obj) == obj.uuid

\* json.dump(data, f, indent=2, cls=JSONEncoder): the text, as the sequence of
\* blocks that reach the file in order (keys in insertion order)
Serialize(d) ==
    <<[k |-> "account", v |-> [id |-> JSONEncoderDefault(d.account.id),
                               cash |-> d.account.cash,
                               updated_at |-> d.account.updated_at]]>>
    \o [i \in 1..Len(d.positions) |-> [k |-> "position", v |-> d.positions[i]]]
    \o <<[k |-> "cash", v |-> [cash |-> d.cash]],
         [k |-> "timestamp", v |-> [timestamp |-> d.timestamp]]>>

Hole == [k |-> "hole", v |-> [zeros |-> TRUE]]

\* A file's content is one whole JSON document of the snapshot schema
WellFormed(c) ==
    /\ Len(c) >= 3
    /\ c[1].k = "account"
    /\ c[Len(c) - 1].k = "cash"
    /\ c[Len(c)].k = "timestamp"
    /\ \A i \in 2..(Len(c) - 2) : c[i].k = "position"

\* json.load of a well-formed file
Parse(c) ==
    [account   |-> c[1].v,
     positions |-> [i \in 1..(Len(c) - 3) |-> c[i + 1].v],
     cash      |-> c[Len(c) - 1].v.cash,
     timestamp |-> c[Len(c)].v.timestamp]

\* write(2) of one block at a file offset: bytes before the offset that the
\* file does not have read as zeros
WriteAt(c, off, b) ==
    [i \in 1..(IF Len(c) > off + 1 THEN Len(c) ELSE off + 1) |->
        IF i = off + 1 THEN b ELSE IF i <= Len(c) THEN c[i] ELSE Hole]

\* Mutant: mkdir without exist_ok, which raises when the directory exists
MkdirNotExistOk(d) ==
    IF d.kind = "absent" /\ d.creatable
        THEN [ok |-> TRUE, dir |-> [d EXCEPT !.kind = "dir"]]
        ELSE [ok |-> FALSE, dir |-> d]

\* DATA_DIR.mkdir(parents=True, exist_ok=True)
Mkdir(d) ==
    CASE d.kind = "dir"  -> [ok |-> TRUE, dir |-> d]
      [] d.kind = "file" -> [ok |-> FALSE, dir |-> d]
      [] d.kind = "absent" ->
            IF d.creatable THEN [ok |-> TRUE, dir |-> [d EXCEPT !.kind = "dir"]]
                           ELSE [ok |-> FALSE, dir |-> d]

\* error_msg = f"Error in run_job: {str(e)}"
ErrorMsg(e) == <<"Error in run_job: ", e>>
SuccessMsg == <<"Successfully fetched and saved Alpaca data">>
Contains(msg, text) == \E i \in 1..Len(msg) : msg[i] = text

Event(op, ok) == [op |-> op, ok |-> ok]

----------------------------------------------------------------------------
DirStates ==
    {[kind |-> "absent", creatable |-> TRUE,  writable |-> TRUE,  dangling |-> FALSE],
     [kind |-> "absent", creatable |-> FALSE, writable |-> TRUE,  dangling |-> FALSE],
     [kind |-> "file",   creatable |-> FALSE, writable |-> FALSE, dangling |-> FALSE],
     [kind |-> "dir",    creatable |-> TRUE,  writable |-> TRUE,  dangling |-> FALSE],
     [kind |-> "dir",    creatable |-> TRUE,  writable |-> FALSE, dangling |-> FALSE],
     [kind |-> "dir",    creatable |-> TRUE,  writable |-> TRUE,  dangling |-> TRUE]}

Init ==
    /\ clock = 0
    /\ dir \in DirStates
    /\ files = <<>>
    /\ pc = [p \in Proc |-> "init"]
    /\ env = [p \in Proc |-> [key |-> Unset, secret |-> Unset]]
    /\ agent = [p \in Proc |-> "default"]
    /\ account = [p \in Proc |-> NoValue]
    /\ account_data = [p \in Proc |-> NoValue]
    /\ apiPositions = [p \in Proc |-> <<>>]
    /\ data = [p \in Proc |-> NoValue]
    /\ fname = [p \in Proc |-> NoName]
    /\ offset = [p \in Proc |-> 0]
    /\ exc = [p \in Proc |-> NoExc]
    /\ result = [p \in Proc |-> NoValue]
    /\ exitStatus = [p \in Proc |-> -1]
    /\ log = [p \in Proc |-> <<>>]
    /\ dirAtStart = [p \in Proc |-> NoValue]
    /\ filesAtStart = [p \in Proc |-> <<>>]
    /\ overlap = FALSE
    /\ lastWriter = 0

\* The wall clock advances
Tick ==
    /\ clock < MaxClock
    /\ clock' = clock + 1
    /\ UNCHANGED <<dir, files, pc, locals, exitStatus, overlap, lastWriter>>

\* run_job returns (ok, msg)
Returned(p, ok, msg) ==
    /\ result' = [result EXCEPT ![p] = [ok |-> ok, msg |-> msg]]
    /\ pc' = [pc EXCEPT ![p] = "returned"]

\* An exception is raised inside run_job's try block
Raise(p, e) ==
    /\ exc' = [exc EXCEPT ![p] = e]
    /\ pc' = [pc EXCEPT ![p] = "except"]
    /\ UNCHANGED result

\* The process ends with an exit status; nothing it held in memory remains
Exit(p, status) ==
    /\ exitStatus' = [exitStatus EXCEPT ![p] = status]
    /\ pc' = [pc EXCEPT ![p] = "exited"]
    /\ env' = [env EXCEPT ![p] = [key |-> Unset, secret |-> Unset]]
    /\ agent' = [agent EXCEPT ![p] = "default"]
    /\ account' = [account EXCEPT ![p] = NoValue]
    /\ account_data' = [account_data EXCEPT ![p] = NoValue]
    /\ apiPositions' = [apiPositions EXCEPT ![p] = <<>>]
    /\ data' = [data EXCEPT ![p] = NoValue]
    /\ fname' = [fname EXCEPT ![p] = NoName]
    /\ offset' = [offset EXCEPT ![p] = 0]
    /\ exc' = [exc EXCEPT ![p] = NoExc]
    /\ result' = [result EXCEPT ![p] = NoValue]
    /\ log' = [log EXCEPT ![p] = <<>>]
    /\ dirAtStart' = [dirAtStart EXCEPT ![p] = NoValue]
    /\ filesAtStart' = [filesAtStart EXCEPT ![p] = <<>>]

\* Import of the module: the environment is read and the output directory made.
\* An exception here is outside every try block and ends the process.
ModuleSetup(p) ==
    /\ pc[p] = "init"
    /\ LET r == Mkdir(dir) IN
          /\ dir' = r.dir
          /\ IF r.ok
                THEN /\ \E k \in KeyValues, s \in KeyValues :
                           env' = [env EXCEPT ![p] = [key |-> k, secret |-> s]]
                     /\ \E a \in Agents : agent' = [agent EXCEPT ![p] = a]
                     /\ dirAtStart' = [dirAtStart EXCEPT ![p] = dir]
                     /\ filesAtStart' = [filesAtStart EXCEPT ![p] = files]
                     /\ pc' = [pc EXCEPT ![p] = "imported"]
                     /\ UNCHANGED <<exitStatus, account, account_data, apiPositions,
                                    data, fname, offset, exc, result, log>>
                ELSE Exit(p, 1)
    /\ UNCHANGED <<clock, files, overlap, lastWriter>>

\* The directory listing sorted by x.stat().st_mtime: stat follows links, so a
\* dangling *.json link raises FileNotFoundError
ListingRaises == dir.kind = "dir" /\ dir.dangling

\* debug_environment(), called by run_job before its try block
DebugEnvironment(p) ==
    /\ pc[p] = "imported"
    /\ IF ListingRaises THEN Exit(p, 1)
                        ELSE /\ pc' = [pc EXCEPT ![p] = "try"]
                             /\ UNCHANGED <<exitStatus, locals>>
    /\ UNCHANGED <<clock, dir, files, overlap, lastWriter>>

\* Mutant: the check fails only when both credentials are missing
MissingCredentialsBoth(k, s) == Falsy(k) /\ Falsy(s)

\* if not ALPACA_API_KEY or not ALPACA_SECRET_KEY
MissingCredentials(k, s) == Falsy(k) \/ Falsy(s)

\* fetch_alpaca_data: the credential check and the client
CreateClient(p) ==
    /\ pc[p] = "try"
    /\ IF MissingCredentials(env[p].key, env[p].secret)
          THEN /\ Raise(p, "Missing Alpaca API credentials")
               /\ UNCHANGED log
          ELSE /\ log' = [log EXCEPT ![p] = Append(@, Event("client", TRUE))]
               /\ pc' = [pc EXCEPT ![p] = "client"]
               /\ UNCHANGED <<exc, result>>
    /\ UNCHANGED <<clock, dir, files, env, agent, account, account_data,
                   apiPositions, data, fname, offset, exitStatus, dirAtStart,
                   filesAtStart, overlap, lastWriter>>

\* Mutant: a failed get_account is tried again
GetAccountRetry(p) ==
    /\ pc[p] = "client"
    /\ Len(log[p]) < 4
    /\ log' = [log EXCEPT ![p] = Append(@, Event("get_account", FALSE))]
    /\ UNCHANGED <<clock, dir, files, pc, env, agent, account, account_data,
                   apiPositions, data, fname, offset, exc, result, exitStatus,
                   dirAtStart, filesAtStart, overlap, lastWriter>>

\* fetch_alpaca_data: get_account and the account part of the record (id, cash
\* and updated_at; portfolio_value, buying_power and equity are float() copies
\* like cash, currency, status and trading_blocked plain copies like id)
GetAccount(p) ==
    /\ pc[p] = "client"
    /\ \/ \E e \in ApiErrors :
            /\ log' = [log EXCEPT ![p] = Append(@, Event("get_account", FALSE))]
            /\ Raise(p, e)
            /\ UNCHANGED <<account, account_data>>
       \/ \E a \in ApiAccounts :
            /\ log' = [log EXCEPT ![p] = Append(@, Event("get_account", TRUE))]
            /\ account' = [account EXCEPT ![p] = a]
            /\ account_data' = [account_data EXCEPT ![p] =
                    [id |-> a.id, cash |-> float(a.cash),
                     updated_at |-> isoformat(get_malaysia_time)]]
            /\ pc' = [pc EXCEPT ![p] = "account"]
            /\ UNCHANGED <<exc, result>>
    /\ UNCHANGED <<clock, dir, files, env, agent, apiPositions, data, fname,
                   offset, exitStatus, dirAtStart, filesAtStart, overlap,
                   lastWriter>>

\* Mutant: each position is put in front of the ones before it
BuildDataReversed(acc, accData, positions) ==
    [account   |-> accData,
     positions |-> [i \in 1..Len(positions) |->
                       [symbol |-> positions[Len(positions) + 1 - i].symbol,
                        qty    |-> float(positions[Len(positions) + 1 - i].qty)]],
     cash      |-> float(acc.cash),
     timestamp |-> isoformat(get_malaysia_time)]

\* The record fetch_alpaca_data returns
BuildData(acc, accData, positions) ==
    [account   |-> accData,
     positions |-> [i \in 1..Len(positions) |->
                       [symbol |-> positions[i].symbol,
                        qty    |-> float(positions[i].qty)]],
     cash      |-> float(acc.cash),
     timestamp |-> isoformat(get_malaysia_time)]

\* fetch_alpaca_data: get_all_positions and the record
GetAllPositions(p) ==
    /\ pc[p] = "account"
    /\ \/ \E e \in ApiErrors :
            /\ log' = [log EXCEPT ![p] = Append(@, Event("get_all_positions", FALSE))]
            /\ Raise(p, e)
            /\ UNCHANGED <<apiPositions, data>>
       \/ \E ps \in ApiPositionLists :
            /\ log' = [log EXCEPT ![p] = Append(@, Event("get_all_positions", TRUE))]
            /\ apiPositions' = [apiPositions EXCEPT ![p] = ps]
            /\ data' = [data EXCEPT ![p] = BuildData(account[p], account_data[p], ps)]
            /\ pc' = [pc EXCEPT ![p] = "fetched"]
            /\ UNCHANGED <<exc, result>>
    /\ UNCHANGED <<clock, dir, files, env, agent, account, account_data, fname,
                   offset, exitStatus, dirAtStart, filesAtStart, overlap,
                   lastWriter>>

\* save_data: filename = f"{agent_name}_{timestamp}.json"
FileName(a) == [agent |-> a, stamp |-> strftime(get_malaysia_time)]

\* open(filepath, 'w') succeeds: the file exists, or the directory lets one be made
CanOpen(f) == dir.kind = "dir" /\ (dir.writable \/ f \in DOMAIN files)

\* Mutant: the file is opened without being cut to length zero
OpenWNoTruncate(f) ==
    [g \in DOMAIN files \cup {f} |-> IF g \in DOMAIN files THEN files[g] ELSE <<>>]

\* Mutant: older snapshots are removed when a new one is opened
OpenWRotate(f) == [g \in {f} |-> <<>>]

\* open(filepath, 'w'): the file is created, or cut to length zero
OpenW(f) == [g \in DOMAIN files \cup {f} |-> IF g = f THEN <<>> ELSE files[g]]

\* save_data: the file name and the open
SaveOpen(p) ==
    /\ pc[p] = "fetched"
    /\ LET f == FileName(agent[p]) IN
          /\ fname' = [fname EXCEPT ![p] = f]
          /\ IF CanOpen(f)
                THEN /\ files' = OpenW(f)
                     /\ log' = [log EXCEPT ![p] = Append(@, Event("open", TRUE))]
                     /\ offset' = [offset EXCEPT ![p] = 0]
                     /\ overlap' = (overlap \/
                            \E q \in Proc \ {p} : pc[q] = "open" /\ fname[q] = f)
                     /\ lastWriter' = p
                     /\ pc' = [pc EXCEPT ![p] = "open"]
                     /\ UNCHANGED <<exc, result>>
                ELSE /\ log' = [log EXCEPT ![p] = Append(@, Event("open", FALSE))]
                     /\ Raise(p, "[Errno 13] Permission denied")
                     /\ UNCHANGED <<files, offset, overlap, lastWriter>>
    /\ UNCHANGED <<clock, dir, env, agent, account, account_data, apiPositions,
                   data, exitStatus, dirAtStart, filesAtStart>>

\* json.dump: the next block of the text reaches the file at this writer's offset
WriteBlock(p) ==
    /\ pc[p] = "open"
    /\ offset[p] < Len(Serialize(data[p]))
    /\ files' = [files EXCEPT ![fname[p]] =
                    WriteAt(@, offset[p], Serialize(data[p])[offset[p] + 1])]
    /\ offset' = [offset EXCEPT ![p] = @ + 1]
    /\ lastWriter' = p
    /\ UNCHANGED <<clock, dir, pc, env, agent, account, account_data, apiPositions,
                   data, fname, exc, result, exitStatus, log, dirAtStart,
                   filesAtStart, overlap>>

\* Mutant: save_data swallows the error instead of raising it again
WriteFailSwallowed(p) ==
    /\ pc[p] = "open"
    /\ Returned(p, TRUE, SuccessMsg)
    /\ UNCHANGED <<clock, dir, files, env, agent, account, account_data,
                   apiPositions, data, fname, offset, exc, exitStatus, log,
                   dirAtStart, filesAtStart, overlap, lastWriter>>

\* json.dump or the closing flush raises: save_data re-raises, run_job reports
WriteFail(p) ==
    /\ pc[p] = "open"
    /\ \E e \in IOErrors : Raise(p, e)
    /\ UNCHANGED <<clock, dir, files, env, agent, account, account_data,
                   apiPositions, data, fname, offset, exitStatus, log, dirAtStart,
                   filesAtStart, overlap, lastWriter>>

\* The with block ends, save_data returns and run_job reports success
CloseAndReturn(p) ==
    /\ pc[p] = "open"
    /\ offset[p] = Len(Serialize(data[p]))
    /\ Returned(p, TRUE, SuccessMsg)
    /\ UNCHANGED <<clock, dir, files, env, agent, account, account_data,
                   apiPositions, data, fname, offset, exc, exitStatus, log,
                   dirAtStart, filesAtStart, overlap, lastWriter>>

\* Mutant: the message does not carry the exception's text
ExceptHandlerNoText(p) ==
    /\ pc[p] = "except"
    /\ Returned(p, FALSE, <<"Error in run_job">>)
    /\ UNCHANGED <<clock, dir, files, env, agent, account, account_data,
                   apiPositions, data, fname, offset, exc, exitStatus, log,
                   dirAtStart, filesAtStart, overlap, lastWriter>>

\* run_job's except clause: the exception becomes the result (False, error_msg)
ExceptHandler(p) ==
    /\ pc[p] = "except"
    /\ Returned(p, FALSE, ErrorMsg(exc[p]))
    /\ UNCHANGED <<clock, dir, files, env, agent, account, account_data,
                   apiPositions, data, fname, offset, exc, exitStatus, log,
                   dirAtStart, filesAtStart, overlap, lastWriter>>

\* __main__ after run_job: the final listing, then the end of the script
MainTail(p) ==
    /\ pc[p] = "returned"
    /\ Exit(p, IF ListingRaises THEN 1 ELSE 0)
    /\ UNCHANGED <<clock, dir, files, overlap, lastWriter>>

\* One execution after another: a process starts when no other is running
StartAlone(p) ==
    /\ \A q \in Proc \ {p} : pc[q] \in {"init", "exited"}
    /\ ModuleSetup(p)

Step(p) ==
    \/ DebugEnvironment(p)
    \/ CreateClient(p)
    \/ GetAccount(p)
    \/ GetAllPositions(p)
    \/ SaveOpen(p)
    \/ WriteBlock(p)
    \/ WriteFail(p)
    \/ CloseAndReturn(p)
    \/ ExceptHandler(p)
    \/ MainTail(p)

Next == Tick \/ \E p \in Proc : StartAlone(p) \/ Step(p)

Spec == Init /\ [][Next]_vars

\* Two executions for the same agent, with credentials, started at any time
StartTogether(p) ==
    /\ ModuleSetup(p)
    /\ pc'[p] = "imported" => /\ agent'[p] = "default"
                              /\ ~Falsy(env'[p].key)
                              /\ ~Falsy(env'[p].secret)

\* Their steps interleaved, both running to completion without an error, the
\* broker reporting the same cash to both
StepTogether(p) ==
    /\ Step(p)
    /\ pc'[p] # "except"
    /\ pc'[p] = "account" => account'[p].cash = "1000.0"

NextConc == Tick \/ \E p \in Proc : StartTogether(p) \/ StepTogether(p)

\* ... in an output directory that exists and can be written
InitConc == Init /\ dir.kind = "dir" /\ dir.writable /\ ~dir.dangling

SpecConc == InitConc /\ [][NextConc]_vars

----------------------------------------------------------------------------
\* The process is inside run_job or just back from it: its memory is live
Running(p) == pc[p] \notin {"init", "exited"}

Ops(l) == [i \in 1..Len(l) |-> l[i].op]
IsPrefix(a, b) == Len(a) <= Len(b) /\ \A i \in 1..Len(a) : a[i] = b[i]
Changed(p) ==
    {f \in DOMAIN files : f \notin DOMAIN filesAtStart[p] \/ files[f] # filesAtStart[p][f]}

\* C1: with ALPACA_API_KEY or ALPACA_SECRET_KEY unset or empty, the run makes no
\* client, no remote call and no open, writes no file, and run_job's result is
\* the failure (False, message about the missing credentials)
C1_MissingCredentialsFail ==
    \A p \in Proc :
        (Running(p) /\ (Falsy(env[p].key) \/ Falsy(env[p].secret))) =>
            /\ log[p] = <<>>
            /\ files = filesAtStart[p]
            /\ pc[p] \in {"imported", "try", "except", "returned"}
            /\ pc[p] = "returned" =>
                  /\ ~result[p].ok
                  /\ Contains(result[p].msg, "Missing Alpaca API credentials")

C1_Witness ==
    \E p \in Proc : /\ pc[p] = "returned"
                    /\ ~Falsy(env[p].key)
                    /\ env[p].secret = ""
                    /\ ~result[p].ok

\* C2: when run_job has returned, its result is (False, message holding the
\* text of the exception) if the fetch or the write raised, and (True, _)
\* exactly when none raised and both steps ran to their end
C2_ExceptionsBecomeResults ==
    \A p \in Proc :
        /\ pc[p] = "except" => exc[p] # NoExc
        /\ pc[p] = "returned" =>
              /\ exc[p] # NoExc => (~result[p].ok /\ Contains(result[p].msg, exc[p]))
              /\ result[p].ok <=> exc[p] = NoExc
              /\ result[p].ok =>
                    /\ Ops(log[p]) = <<"client", "get_account", "get_all_positions", "open">>
                    /\ \A i \in 1..Len(log[p]) : log[p][i].ok
                    /\ offset[p] = Len(Serialize(data[p]))

C2_Witness ==
    \E p \in Proc : /\ pc[p] = "returned"
                    /\ exc[p] = "[Errno 13] Permission denied"
                    /\ ~result[p].ok

\* C3: every execution of the script ends with exit status 0
C3_ExitStatusZero ==
    \A p \in Proc : pc[p] = "exited" => exitStatus[p] = 0

\* C4: the name of the file a run writes is its agent name and the second of
\* the instant stored in the timestamp field of the record written
C4_NameIsRecordTimestamp ==
    \A p \in Proc :
        (Running(p) /\ fname[p] # NoName) =>
            fname[p] = [agent |-> agent[p], stamp |-> data[p].timestamp[1]]
\* The two processes, each seen from the other
Other(p) == CHOOSE q \in Proc : q # p
BothWrote == \A p \in Proc : pc[p] = "returned" /\ result[p].ok

DataBuilt(p) ==
    \/ pc[p] \in {"fetched", "open"}
    \/ pc[p] \in {"except", "returned"} /\ Len(log[p]) = 4

\* C6: in every record a fetch returned, cash equals account.cash and positions
\* holds one entry per position the API returned, in the API's order; a file
\* written to its end reads back as that record, with nothing of an earlier
\* snapshot in it, and every whole file has cash equal to account.cash
C6_CashAndPositions ==
    /\ \A p \in Proc :
          DataBuilt(p) =>
              /\ data[p].cash = data[p].account.cash
              /\ data[p].cash = float(account[p].cash)
              /\ Len(data[p].positions) = Len(apiPositions[p])
              /\ \A i \in 1..Len(apiPositions[p]) :
                    /\ data[p].positions[i].symbol = apiPositions[p][i].symbol
                    /\ data[p].positions[i].qty = float(apiPositions[p][i].qty)
              /\ (pc[p] = "returned" /\ result[p].ok) =>
                    /\ WellFormed(files[fname[p]])
                    /\ Parse(files[fname[p]]).positions = data[p].positions
                    /\ Parse(files[fname[p]]).cash = data[p].cash
    /\ \A f \in DOMAIN files :
          WellFormed(files[f]) => Parse(files[f]).cash = Parse(files[f]).account.cash

C6_Witness ==
    \E p \in Proc :
        /\ pc[p] = "returned" /\ result[p].ok
        /\ fname[p] \in DOMAIN filesAtStart[p]
        /\ Len(filesAtStart[p][fname[p]]) > Len(files[fname[p]])
        /\ Len(data[p].positions) = 0

\* C7: the module setup leaves the output directory in place when it is there
\* (nothing changes, nothing fails), makes it when it is absent, and every open
\* of a snapshot file finds the directory there
C7_DirectoryBeforeWrite ==
    [][\A p \in Proc :
          /\ (pc[p] = "init" /\ pc'[p] # "init") =>
                /\ dir.kind = "dir" =>
                      (pc'[p] = "imported" /\ dir' = dir /\ files' = files)
                /\ (dir.kind = "absent" /\ pc'[p] = "imported") => dir'.kind = "dir"
          /\ (Len(log'[p]) > Len(log[p]) /\ log'[p][Len(log'[p])].op = "open") =>
                dir.kind = "dir"]_vars

C7_Witness ==
    \E p \in Proc : pc[p] = "open" /\ dirAtStart[p].kind = "absent"

\* C8: a run makes the client, calls get_account, calls get_all_positions and
\* opens the file in this order, each at most once and each only after the
\* one before succeeded; after a failure it does none of them
C8_FixedOrderNoRetry ==
    /\ [](\A p \in Proc :
            /\ IsPrefix(Ops(log[p]),
                        <<"client", "get_account", "get_all_positions", "open">>)
            /\ \A i \in 1..(Len(log[p]) - 1) : log[p][i].ok)
    /\ [][\A p \in Proc :
            exc[p] # NoExc => /\ files' = files
                              /\ log'[p] = log[p] \/ pc'[p] = "exited"]_vars

C8_Witness ==
    \E p \in Proc : /\ pc[p] = "returned"
                    /\ Len(log[p]) = 3
                    /\ ~log[p][3].ok

\* C9: a run removes no file and changes no file but the one named by its
\* agent name and its timestamp; until it opens that file the directory is as
\* the run found it
C9_OnlyOwnFileChanges ==
    \A p \in Proc :
        Running(p) =>
            /\ DOMAIN filesAtStart[p] \subseteq DOMAIN files
            /\ Changed(p) \subseteq {fname[p]}
            /\ fname[p] # NoName => fname[p].agent = agent[p]
            /\ (\A i \in 1..Len(log[p]) : log[p][i].op # "open") => files = filesAtStart[p]

C9_Witness ==
    \E p \in Proc :
        /\ pc[p] = "returned" /\ result[p].ok
        /\ DOMAIN filesAtStart[p] # {}
        /\ fname[p] \notin DOMAIN filesAtStart[p]

\* C10: when run_job returns (True, _) its file is there and holds the whole
\* text of the record fetched in this run; a run that leaves a file it wrote
\* unfinished returns (False, _)
C10_SuccessMeansWholeFile ==
    \A p \in Proc :
        pc[p] = "returned" =>
            /\ result[p].ok =>
                  /\ fname[p] \in DOMAIN files
                  /\ files[fname[p]] = Serialize(data[p])
            /\ (\E f \in Changed(p) : ~WellFormed(files[f])) => ~result[p].ok

C10_Witness ==
    \E p \in Proc :
        /\ pc[p] = "returned" /\ result[p].ok
        /\ \E f \in DOMAIN files : ~WellFormed(files[f])
====
